---- MODULE Spec2Model ----
(***************************************************************************)
(* Magnetic balltracking (balltracking/mballtrack.py): the MBT class, its  *)
(* per-frame loop track_all_frames, the validity and decimation engine     *)
(* set_bad_balls, the emergence populator populate_emergence, and the      *)
(* helpers get_local_extrema and coarse_grid_pos.                          *)
(*                                                                         *)
(* Positions are floating point in the program.  Here every coordinate is  *)
(* an integer number of 1/Scale pixels, so that a ball can sit between two *)
(* pixels and the conversion astype(np.int32) is a real truncation.        *)
(***************************************************************************)
EXTENDS Integers, Sequences, FiniteSets, TLC

\* ------------------------------------------------------------------ bounds
Scale == 2          \* sub-pixel resolution: stored coordinate = pixel * Scale
MaxNt == 2          \* largest frame count nt
MaxSeeds == 2       \* largest number of explicit initial seeds (init_pos)

\* ------------------------------------------------- constructor parameters
rs == 1             \* ball radius, pixels
ballspacing == 2    \* side of a coarse-grid cell, pixels
intsteps == 2       \* integration sub-steps per frame
mag_thresh == 30    \* detector threshold
noise_level == 20   \* noise floor
polarity == 1       \* tracked polarity
nx == 4             \* image.shape[1]
ny == 6             \* image.shape[0]

\* ------------------------------------------------------- small arithmetic
Abs(v) == IF v < 0 THEN -v ELSE v

Sign(v) == IF v > 0 THEN 1 ELSE IF v < 0 THEN -1 ELSE 0

\* ceil(a / b) for positive b, as np.ceil(a / b).astype(int)
CeilDiv(a, b) == (a + b - 1) \div b

Clip(v, lo, hi) == IF v < lo THEN lo ELSE IF v > hi THEN hi ELSE v

\* astype(np.int32) of a float: truncation toward zero, result in pixels
AsInt32(v) == IF v >= 0 THEN v \div Scale ELSE -((-v) \div Scale)

\* np.floor(v / d) of a stored coordinate v by a pixel length d
FloorDivPx(v, d) == v \div (d * Scale)

Min2(a, b) == IF a < b THEN a ELSE b

Range(f) == {f[k] : k \in DOMAIN f}

\* ----------------------------------------------------------------- frames
Pixels == (0 .. nx - 1) \X (0 .. ny - 1)

\* the two places where the test frames carry a bright feature
SpotA == <<1, 1>>
SpotB == <<2, 4>>

SpotValue == 40
QuietValue == 25
NoiseValue == 10
OppositeValue == -40

\* a frame: background value everywhere, SpotValue on the spots
Img(bg, spots) == [p \in Pixels |-> IF p \in spots THEN SpotValue ELSE bg]

\* the frames a data series is made of: a quiet, a noisy or an opposite
\* background, with one, two or no bright feature
Images ==
    {Img(QuietValue, {SpotA}), Img(QuietValue, {SpotA, SpotB}),
     Img(NoiseValue, {SpotA}), Img(NoiseValue, {}),
     Img(OppositeValue, {SpotA}), Img(OppositeValue, {})}

\* image.max() of a 2D array
MaxOf(f) == CHOOSE m \in Range(f) : \A v \in Range(f) : v <= m

MinOver(f, S) == CHOOSE m \in {f[p] : p \in S} : \A p \in S : m <= f[p]

\* ------------------------------------------------- surface preparation
\* prep_function: the pluggable frame -> surface transform.  As prep_data it
\* is image2.max() - image2 of the magnitude image2 of the frame, here in
\* units of 10 and without the float normalisation; result in 1/Scale px.
prep_function(im) ==
    LET image2 == [p \in Pixels |-> Abs(im[p]) \div 10]
        mx == MaxOf(image2)
    IN [p \in Pixels |-> (mx - image2[p]) * Scale]

\* ----------------------------------------------------- extrema detector
\* Chebyshev distance of two pixels (peak_local_max works on square windows)
Cheb(p, q) == LET dx == Abs(p[1] - q[1])
                  dy == Abs(p[2] - q[2])
              IN IF dx > dy THEN dx ELSE dy

\* raster order of the pixels, row by row
RasterIdx(p) == p[2] * nx + p[1]

RECURSIVE RasterSeq(_)
RasterSeq(S) ==
    IF S = {} THEN <<>>
    ELSE LET p == CHOOSE q \in S : \A r \in S : RasterIdx(q) <= RasterIdx(r)
         IN <<p>> \o RasterSeq(S \ {p})

\* keep a peak only if it is farther than min_distance from every kept one
RECURSIVE EnsureSpacing(_, _, _)
EnsureSpacing(cands, kept, min_distance) ==
    IF cands = <<>> THEN kept
    ELSE LET p == Head(cands)
             ok == \A k \in 1 .. Len(kept) : Cheb(p, kept[k]) > min_distance
         IN EnsureSpacing(Tail(cands), IF ok THEN Append(kept, p) ELSE kept,
                          min_distance)

\* skimage's peak_local_max(np.abs(image), min_distance, labels=mask): the
\* pixels of the mask that are maxima of |image| among the mask pixels within
\* min_distance, thinned to the spacing
peak_local_max(im, min_distance, mask) ==
    LET peaks == {p \in mask : \A q \in mask :
                      Cheb(p, q) <= min_distance => Abs(im[q]) <= Abs(im[p])}
    IN EnsureSpacing(RasterSeq(peaks), <<>>, min_distance)

\* variant: the threshold is compared with the absolute value of the pixel
mask_thresh_abs(im, pol, threshold) == {p \in Pixels : Abs(im[p]) >= threshold}

\* mask_thresh of get_local_extrema for a scalar threshold
mask_thresh(im, pol, threshold) ==
    IF pol >= 0 THEN {p \in Pixels : im[p] >= threshold}
    ELSE {p \in Pixels : im[p] <= -threshold}

\* mask_thresh for a threshold that is a number, <<t>>, or a pair of bounds,
\* <<a, b>> in either order
mask_thresh_bounds(im, pol, threshold) ==
    IF Len(threshold) = 1 THEN mask_thresh(im, pol, threshold[1])
    ELSE LET lo == Min2(threshold[1], threshold[2])
             hi == IF threshold[1] > threshold[2] THEN threshold[1]
                   ELSE threshold[2]
         IN {p \in Pixels : im[p] > lo /\ im[p] < hi}

\* mask_thresh[:, 0:xlims[0]] = False and mask_thresh[:, xlims[1]:] = False,
\* the same for the rows with ylims; <<>> stands for None
within_lims(mask, xlims, ylims) ==
    {p \in mask :
        /\ xlims # <<>> => (xlims[1] <= p[1] /\ p[1] < xlims[2])
        /\ ylims # <<>> => (ylims[1] <= p[2] /\ p[2] < ylims[2])}

\* get_local_extrema with all its arguments: sequence of <<x, y>> pixel
\* coordinates
get_local_extrema_lims(im, pol, min_distance, threshold, local_min, xlims, ylims) ==
    LET mask == within_lims(mask_thresh_bounds(im, pol, threshold),
                            xlims, ylims)
        top == MaxOf(im)
        image2 == [p \in Pixels |-> top - im[p]]
    IN peak_local_max(IF local_min THEN image2 ELSE im, min_distance, mask)

\* get_local_extrema as MBT calls it: a number as threshold, maxima, no
\* window
get_local_extrema(im, pol, min_distance, threshold) ==
    get_local_extrema_lims(im, pol, min_distance, <<threshold>>, FALSE,
                           <<>>, <<>>)

\* ------------------------------------------------ helpers of balltrack
\* blt.get_off_edges_mask: the footprint [x-rs, x+rs] x [y-rs, y+rs] would
\* index outside the frame; x, y stored coordinates
get_off_edges_mask(x, y) ==
    \/ x - rs * Scale < 0
    \/ x + rs * Scale > (nx - 1) * Scale
    \/ y - rs * Scale < 0
    \/ y + rs * Scale > (ny - 1) * Scale

\* pixels under the footprint of a ball centred on pixel <<px, py>>
Footprint(px, py) ==
    {p \in Pixels : Abs(p[1] - px) <= rs /\ Abs(p[2] - py) <= rs}

\* blt.put_balls_on_surface: starting z of a ball, the minimal surface value
\* under its footprint
put_balls_on_surface(surf, px, py) == MinOver(surf, Footprint(px, py))

\* -------------------------------------------------------- coarse grid
nxc_ == CeilDiv(nx, ballspacing)

\* as the source computes it: from nx, not ny
nyc_ == CeilDiv(nx, ballspacing)

\* coarse_grid_pos: 1D index of the coarse cell of a stored position
coarse_grid_pos(x, y) ==
    LET xcoarse == Clip(FloorDivPx(x, ballspacing), 0, nxc_ - 1)
        ycoarse == Clip(FloorDivPx(y, ballspacing), 0, nyc_ - 1)
    IN ycoarse * nxc_ + xcoarse

\* ------------------------------------------------------------- sorting
\* keys are pairs <<primary, secondary>>, compared as np.lexsort compares
KeyLess(a, b) == a[1] < b[1] \/ (a[1] = b[1] /\ a[2] < b[2])

RECURSIVE InsertStable(_, _, _)
InsertStable(e, s, key) ==
    IF s = <<>> THEN <<e>>
    ELSE IF KeyLess(key[e], key[Head(s)]) THEN <<e>> \o s
    ELSE <<Head(s)>> \o InsertStable(e, Tail(s), key)

\* stable sort of the sequence seq by key: equal keys keep their order
RECURSIVE StableSort(_, _, _)
StableSort(seq, acc, key) ==
    IF seq = <<>> THEN acc
    ELSE StableSort(Tail(seq), InsertStable(Head(seq), acc, key), key)

\* the members of a set of integers in ascending order (np.nonzero)
RECURSIVE Ascending(_)
Ascending(S) ==
    IF S = {} THEN <<>>
    ELSE LET m == CHOOSE a \in S : \A b \in S : a <= b
         IN <<m>> \o Ascending(S \ {m})

\* ---------------------------------------------------------------- state
VARIABLES
    nt,                    \* number of frames to track
    track_emergence,       \* emergence tracking enabled
    init_given,            \* init_pos was passed to the constructor
    nballs_max,            \* capacity
    nballs,                \* number of slots used so far
    pos,                   \* slot -> <<x, y, z>>, stored coordinates
    vel,                   \* slot -> [nan, v]
    balls_age,             \* slot -> age
    bad_balls_mask,        \* slot -> BOOLEAN
    new_valid_balls_mask,  \* slot -> BOOLEAN
    ballpos,               \* frame -> slot -> <<x, y, z>>
    balls_age_t,           \* frame -> slot -> age
    valid_balls_mask_t,    \* frame -> slot -> BOOLEAN
    image,                 \* frame being processed
    surface,               \* prep_function(image)
    next_image,            \* frame n + 1 of the data
    next_surface,          \* surface of frame n + 1 (of frame n on the last)
    surface_i,             \* interpolated surface of the last sub-step
    n,                     \* frame index of the loop
    i,                     \* sub-step index of the inner loop
    pc,                    \* position in track_all_frames
    stdout,                \* messages printed by set_bad_balls
    exit_status,           \* argument of sys.exit, -1 while running
    verbose,               \* progress messages enabled
    extrema                \* a call of get_local_extrema outside a run

vars == <<nt, track_emergence, init_given, nballs_max, nballs, pos, vel,
          balls_age, bad_balls_mask, new_valid_balls_mask, ballpos,
          balls_age_t, valid_balls_mask_t, image, surface, next_image,
          next_surface, surface_i, n, i, pc, stdout, exit_status, verbose, extrema>>

Slots == 0 .. nballs_max - 1

\* the value -1 written to every component of an unused or bad slot
Sentinel == <<-Scale, -Scale, -Scale>>

Zero3 == <<0, 0, 0>>

VelZero == [nan |-> FALSE, v |-> Zero3]

VelNaN == [nan |-> TRUE, v |-> Zero3]

\* Deepest height below surface level at which a ball can fall down
min_ds_ == 4 * rs

\* ------------------------------------------------------ set_bad_balls
\* variant: the right edge is tested against nx instead of nx - 1
valid_balls_idx_wide ==
    {s \in Slots : /\ pos[s][1] - rs * Scale >= 0
                   /\ pos[s][1] + rs * Scale <= nx * Scale
                   /\ ~get_off_edges_mask(rs * Scale, pos[s][2])}

\* balls whose footprint is on the frame
valid_balls_idx == {s \in Slots : ~get_off_edges_mask(pos[s][1], pos[s][2])}

\* pos2 = self.pos[:, valid_balls_idx].astype(np.int32), in pixels
pos2(s) == <<AsInt32(pos[s][1]), AsInt32(pos[s][2]), AsInt32(pos[s][3])>>

PixelOf(s) == <<pos2(s)[1], pos2(s)[2]>>

same_polarity_mask(s) == Sign(image[PixelOf(s)]) * polarity >= 0

noise_mask(s) == Abs(image[PixelOf(s)]) > noise_level

unsunk_mask(s) == pos2(s)[3] * Scale > surface[PixelOf(s)] - min_ds_ * Scale

\* valid_balls_mask2 after each of the three checks (all three are on)
after_polarity == {s \in valid_balls_idx : same_polarity_mask(s)}

after_noise == {s \in after_polarity : noise_mask(s)}

\* variant: the indices are not reduced to the balls that passed the checks
\* before decimation
after_sinking_unfiltered ==
    IF {s \in after_noise : unsunk_mask(s)} = {} THEN {} ELSE valid_balls_idx

after_sinking == {s \in after_noise : unsunk_mask(s)}

PolarityMsg == "All the balls crossed to opposite polarity. Tracking interrupted."

NoiseMsg == "All the balls are sitting on noise. Tracking interrupted."

SinkingMsg == "All the balls have sunk below maximum allowed depth. Tracking interrupted."

\* variant: the noise branch prints the message of the polarity branch
interrupt_msg_copied ==
    IF after_polarity = {} THEN PolarityMsg
    ELSE IF after_noise = {} THEN PolarityMsg
    ELSE IF after_sinking = {} THEN SinkingMsg
    ELSE ""

\* the message of the first check that leaves no ball, "" when none does
interrupt_msg ==
    IF after_polarity = {} THEN PolarityMsg
    ELSE IF after_noise = {} THEN NoiseMsg
    ELSE IF after_sinking = {} THEN SinkingMsg
    ELSE ""

\* coarse cell of the ball in a slot
coarse_pos(s) == coarse_grid_pos(pos[s][1], pos[s][2])

\* valid_balls_idx[sorted_balls]: the surviving slots sorted by coarse cell
sorted_balls ==
    StableSort(Ascending(after_sinking), <<>>,
               [s \in after_sinking |-> <<coarse_pos(s), 0>>])

\* sidx = np.lexsort([balls_age, coarse_pos]): positions of sorted_balls
\* ordered by cell, then by age
sidx ==
    LET sb == sorted_balls
        m == Len(sb)
    IN StableSort([k \in 1 .. m |-> k], <<>>,
                  [k \in 1 .. m |-> <<coarse_pos(sb[k]), balls_age[sb[k]]>>])

\* variant: the closing -1 is missing, the last cell loses its ball
last_of_cell_no_tail ==
    LET sb == sorted_balls
        m == Len(sb)
    IN {k \in 1 .. m - 1 : coarse_pos(sb[k + 1]) # coarse_pos(sb[k])}

\* np.r_[np.flatnonzero(coarse_pos[1:] != coarse_pos[:-1]), -1]
last_of_cell ==
    LET sb == sorted_balls
        m == Len(sb)
    IN {k \in 1 .. m - 1 : coarse_pos(sb[k + 1]) # coarse_pos(sb[k])} \cup {m}

\* variant: no decimation, every ball that passed the checks is kept
unique_valid_balls_all == after_sinking

\* variant: the first ball of every cell in the sorted order is kept instead
\* of the last one, the youngest instead of the oldest
unique_valid_balls_first ==
    LET sb == sorted_balls
        sx == sidx
        m == Len(sb)
    IN {sb[sx[k]] : k \in {j \in 2 .. m : coarse_pos(sb[j]) # coarse_pos(sb[j - 1])}
                          \cup {1}}

unique_valid_balls ==
    LET sb == sorted_balls
        sx == sidx
    IN {sb[sx[k]] : k \in last_of_cell}

\* -------------------------------------------------------- construction
\* positions an explicit init_pos may hold (stored coordinates); SeedC lies
\* between pixels, in the coarse cell of SpotA
SeedA == <<SpotA[1] * Scale, SpotA[2] * Scale>>

SeedB == <<SpotB[1] * Scale, SpotB[2] * Scale>>

SeedC == <<SpotA[1] * Scale + 1, SpotA[2] * Scale + 1>>

SeedList == <<SeedA, SeedC, SeedB>>

\* the sub-sequences of s with at most k elements
RECURSIVE SubSeqs(_, _)
SubSeqs(s, k) ==
    IF s = <<>> \/ k = 0 THEN {<<>>}
    ELSE SubSeqs(Tail(s), k)
         \cup {<<Head(s)>> \o t : t \in SubSeqs(Tail(s), k - 1)}

\* init_pos arguments: up to MaxSeeds columns
InitPosChoices == SubSeqs(SeedList, MaxSeeds)

\* xstart, ystart of the detector as stored coordinates
StoredSeq(pixels) ==
    [k \in 1 .. Len(pixels) |-> <<pixels[k][1] * Scale, pixels[k][2] * Scale>>]

\* variant: the mask of valid balls is created with every slot valid
Construct_all_valid(im, given, start) ==
    LET surf == prep_function(im)
        cap == IF given THEN Len(start) ELSE (nx * ny) \div 2
        zstart(k) == put_balls_on_surface(surf, AsInt32(start[k][1]),
                                          AsInt32(start[k][2]))
    IN /\ image = im
       /\ surface = surf
       /\ init_given = given
       /\ nballs_max = cap
       /\ nballs = Len(start)
       /\ pos = [s \in 0 .. cap - 1 |->
                    IF s < Len(start)
                    THEN <<start[s + 1][1], start[s + 1][2], zstart(s + 1)>>
                    ELSE Sentinel]
       /\ vel = [s \in 0 .. cap - 1 |-> VelZero]
       /\ balls_age = [s \in 0 .. cap - 1 |-> 1]
       /\ ballpos = [f \in 0 .. nt - 1 |-> [s \in 0 .. cap - 1 |-> Zero3]]
       /\ balls_age_t = [f \in 0 .. nt - 1 |-> [s \in 0 .. cap - 1 |-> 1]]
       /\ valid_balls_mask_t =
              [f \in 0 .. nt - 1 |-> [s \in 0 .. cap - 1 |-> TRUE]]
       /\ bad_balls_mask = [s \in 0 .. cap - 1 |-> FALSE]
       /\ new_valid_balls_mask = [s \in 0 .. cap - 1 |-> TRUE]

\* MBT.__init__ for the first frame im and the seeds start (stored x, y)
Construct(im, given, start) ==
    LET surf == prep_function(im)
        cap == IF given THEN Len(start) ELSE (nx * ny) \div 2
        zstart(k) == put_balls_on_surface(surf, AsInt32(start[k][1]),
                                          AsInt32(start[k][2]))
    IN /\ image = im
       /\ surface = surf
       /\ init_given = given
       /\ nballs_max = cap
       /\ nballs = Len(start)
       /\ pos = [s \in 0 .. cap - 1 |->
                    IF s < Len(start)
                    THEN <<start[s + 1][1], start[s + 1][2], zstart(s + 1)>>
                    ELSE Sentinel]
       /\ vel = [s \in 0 .. cap - 1 |-> VelZero]
       /\ balls_age = [s \in 0 .. cap - 1 |-> 1]
       /\ ballpos = [f \in 0 .. nt - 1 |-> [s \in 0 .. cap - 1 |-> Zero3]]
       /\ balls_age_t = [f \in 0 .. nt - 1 |-> [s \in 0 .. cap - 1 |-> 1]]
       /\ valid_balls_mask_t =
              [f \in 0 .. nt - 1 |-> [s \in 0 .. cap - 1 |-> TRUE]]
       /\ bad_balls_mask = [s \in 0 .. cap - 1 |-> FALSE]
       /\ new_valid_balls_mask = [s \in 0 .. cap - 1 |-> s < Len(start)]

\* no call of get_local_extrema outside the run
NoCall == [called |-> FALSE]

Init ==
    /\ nt \in 0 .. MaxNt
    /\ track_emergence \in BOOLEAN
    /\ verbose \in BOOLEAN
    /\ \E im \in Images :
          \/ \E init_pos \in InitPosChoices : Construct(im, TRUE, init_pos)
          \/ Construct(im, FALSE,
                       StoredSeq(get_local_extrema(im, polarity, ballspacing,
                                                   mag_thresh)))
    /\ next_image = image
    /\ next_surface = surface
    /\ surface_i = [p \in Pixels |-> surface[p] * intsteps]
    /\ n = 0
    /\ i = 0
    /\ pc = "loop"
    /\ stdout = <<>>
    /\ exit_status = -1
    /\ extrema = NoCall

\* ----------------------------------------------------- track_all_frames
\* head of the frame loop: load frame n and frame n + 1
LoadFrame ==
    /\ pc = "loop"
    /\ n < nt
    /\ stdout' = IF verbose THEN Append(stdout, [frame |-> n]) ELSE stdout
    /\ image' = next_image
    /\ LET surf == prep_function(next_image)
       IN /\ surface' = surf
          /\ IF n < nt - 1
             THEN \E im \in Images :
                     /\ next_image' = im
                     /\ next_surface' = prep_function(im)
             ELSE /\ next_image' = next_image
                  /\ next_surface' = surf
          /\ IF track_emergence /\ n > 0
             THEN /\ pc' = "emerge"
                  /\ UNCHANGED <<i, surface_i>>
             ELSE /\ pc' = "integrate"
                  /\ i' = 0
                  /\ surface_i' = [p \in Pixels |-> surf[p] * intsteps]
    /\ UNCHANGED <<nt, track_emergence, init_given, nballs_max, nballs, pos,
                   vel, balls_age, bad_balls_mask, new_valid_balls_mask,
                   ballpos, balls_age_t, valid_balls_mask_t, n, exit_status,
                   verbose, extrema>>

\* ------------------------------------------------- populate_emergence
\* balls the candidates are compared with
valid_now == {s \in Slots : new_valid_balls_mask[s]}

\* squared distance, stored units, of a candidate <<x, y>> to a position
Dist2(c, q) == (c[1] - q[1]) * (c[1] - q[1]) + (c[2] - q[2]) * (c[2] - q[2])

\* distance_min > self.ballspacing + 1
populate_flux_mask(c) ==
    \A s \in valid_now :
        Dist2(c, pos[s]) > ((ballspacing + 1) * Scale) * ((ballspacing + 1) * Scale)

\* .view('int32') of an int64 array: every element followed by its high word
ViewInt32(a) ==
    [k \in 1 .. 2 * Len(a) |-> IF k % 2 = 1 THEN a[(k + 1) \div 2] ELSE 0]

\* candidates of the current frame, pixel coordinates, that are far from
\* every valid ball
flux_new ==
    SelectSeq(get_local_extrema(image, polarity, ballspacing, mag_thresh),
              LAMBDA c : populate_flux_mask(<<c[1] * Scale, c[2] * Scale>>))

\* newposx, newposy after the view and the within-edges mask, as pairs
newpos ==
    LET vx == ViewInt32([k \in 1 .. Len(flux_new) |-> flux_new[k][1]])
        vy == ViewInt32([k \in 1 .. Len(flux_new) |-> flux_new[k][2]])
        pairs == [k \in 1 .. Len(vx) |-> <<vx[k], vy[k]>>]
    IN SelectSeq(pairs,
                 LAMBDA c : ~get_off_edges_mask(c[1] * Scale, c[2] * Scale))

\* length of the slice self.nballs : self.nballs + k of an array of
\* nballs_max columns
SliceLen(k) == Min2(nballs + k, nballs_max) - Min2(nballs, nballs_max)

\* numpy accepts an array of k values for a slice of m columns when the
\* shapes agree or the array has one element (broadcast)
AssignFits(k, m) == k = m \/ k = 1

PopulateEmergence ==
    /\ pc = "emerge"
    /\ IF Len(flux_new) > 0 /\ ~AssignFits(Len(newpos), SliceLen(Len(newpos)))
       THEN \* ValueError of the assignment to self.pos: nothing was written
            /\ pc' = "crashed"
            /\ UNCHANGED <<nballs, pos, vel, bad_balls_mask,
                           new_valid_balls_mask, i, surface_i>>
       ELSE /\ pc' = "integrate"
            /\ i' = 0
            /\ surface_i' = [p \in Pixels |-> surface[p] * intsteps]
            /\ IF Len(flux_new) > 0
               THEN LET k == Len(newpos)
                        written == {s \in Slots : nballs <= s /\ s < nballs + k}
                        bad == [s \in Slots |->
                                   IF s \in written THEN FALSE
                                   ELSE bad_balls_mask[s]]
                    IN /\ pos' = [s \in Slots |->
                                    IF s \in written
                                    THEN LET c == newpos[IF k = 1 THEN 1
                                                         ELSE s - nballs + 1]
                                         IN <<c[1] * Scale, c[2] * Scale,
                                              put_balls_on_surface(surface, c[1], c[2])>>
                                    ELSE pos[s]]
                       /\ vel' = [s \in Slots |->
                                    IF s \in written THEN VelZero ELSE vel[s]]
                       /\ bad_balls_mask' = bad
                       /\ new_valid_balls_mask' = [s \in Slots |-> ~bad[s]]
                       /\ nballs' = nballs + k
               ELSE UNCHANGED <<nballs, pos, vel, bad_balls_mask,
                                new_valid_balls_mask>>
    /\ UNCHANGED <<nt, track_emergence, init_given, nballs_max, balls_age,
                   ballpos, balls_age_t, valid_balls_mask_t, image, surface,
                   next_image, next_surface, n, stdout, exit_status, verbose, extrema>>

\* -------------------------------------------------- integration sub-step
\* displacements one sub-step can give a ball (stored units): rest, a drift
\* of one sub-pixel along x and one pixel up along y, a fall of one pixel
\* with a drift of one pixel down along y
Moves == {Zero3, <<1, Scale, 0>>, <<0, -Scale, -Scale>>}

Add3(a, b) == <<a[1] + b[1], a[2] + b[2], a[3] + b[3]>>

\* blt.integrate_motion: every valid ball gets the velocity mv and moves by it
integrate_motion(mv) ==
    /\ pos' = [s \in Slots |->
                  IF new_valid_balls_mask[s] THEN Add3(pos[s], mv[s]) ELSE pos[s]]
    /\ vel' = [s \in Slots |->
                  IF new_valid_balls_mask[s] THEN [nan |-> FALSE, v |-> mv[s]]
                  ELSE vel[s]]

\* variant: the weights of sub-step k + 1 are used at sub-step k
interpolated_surface_ahead(k) ==
    [p \in Pixels |->
        surface[p] * (intsteps - k - 1) + next_surface[p] * (k + 1)]

\* surface_i of sub-step k, times intsteps:
\* self.surface*(self.intsteps - i) + next_surface * i
interpolated_surface(k) ==
    [p \in Pixels |-> surface[p] * (intsteps - k) + next_surface[p] * k]

IntegrateStep ==
    /\ pc = "integrate"
    /\ i < intsteps
    /\ surface_i' = interpolated_surface(i)
    /\ \E mv \in [valid_now -> Moves] : integrate_motion(mv)
    /\ i' = i + 1
    /\ pc' = IF i + 1 = intsteps THEN "validate" ELSE "integrate"
    /\ UNCHANGED <<nt, track_emergence, init_given, nballs_max, nballs,
                   balls_age, bad_balls_mask, new_valid_balls_mask, ballpos,
                   balls_age_t, valid_balls_mask_t, image, surface, next_image,
                   next_surface, n, stdout, exit_status, verbose, extrema>>

\* ------------------------------------------ validity, flagging, history
\* self.set_bad_balls(): sys.exit(1) when a check leaves no ball, else the
\* masks of the decimated set
SetBadBalls ==
    /\ pc = "validate"
    /\ IF interrupt_msg # ""
       THEN /\ stdout' = Append(stdout, [message |-> interrupt_msg])
            /\ exit_status' = 1
            /\ pc' = "aborted"
            /\ UNCHANGED <<bad_balls_mask, new_valid_balls_mask>>
       ELSE /\ LET keep == unique_valid_balls
               IN /\ bad_balls_mask' = [s \in Slots |-> s \notin keep]
                  /\ new_valid_balls_mask' = [s \in Slots |-> s \in keep]
            /\ pc' = "record"
            /\ UNCHANGED <<stdout, exit_status>>
    /\ UNCHANGED <<nt, track_emergence, init_given, nballs_max, nballs, pos,
                   vel, balls_age, ballpos, balls_age_t, valid_balls_mask_t,
                   image, surface, next_image, next_surface, surface_i, n, i,
                   verbose, extrema>>

\* variant: the bad balls keep their position
FlagBadBalls_kept == pos

\* variant: only the z of a bad ball is flagged
FlagBadBalls_z ==
    [s \in Slots |-> IF bad_balls_mask[s] THEN <<pos[s][1], pos[s][2], -Scale>>
                     ELSE pos[s]]

\* self.pos[:, self.bad_balls_mask] = -1
FlagBadBalls == [s \in Slots |-> IF bad_balls_mask[s] THEN Sentinel ELSE pos[s]]

\* variant: every slot in use ages, valid or not
IncrementAge_all == [s \in Slots |-> IF s < nballs THEN balls_age[s] + 1
                                     ELSE balls_age[s]]

\* self.balls_age[self.new_valid_balls_mask] += 1
IncrementAge ==
    [s \in Slots |-> IF new_valid_balls_mask[s] THEN balls_age[s] + 1
                     ELSE balls_age[s]]

\* flag the bad balls, age the valid ones, store the snapshot of frame n
RecordFrame ==
    /\ pc = "record"
    /\ pos' = FlagBadBalls
    /\ vel' = [s \in Slots |-> IF bad_balls_mask[s] THEN VelNaN ELSE vel[s]]
    /\ balls_age' = IncrementAge
    /\ ballpos' = [ballpos EXCEPT ![n] = FlagBadBalls]
    /\ balls_age_t' = [balls_age_t EXCEPT ![n] = IncrementAge]
    /\ valid_balls_mask_t' = [valid_balls_mask_t EXCEPT ![n] = new_valid_balls_mask]
    /\ n' = n + 1
    /\ pc' = "loop"
    /\ UNCHANGED <<nt, track_emergence, init_given, nballs_max, nballs,
                   bad_balls_mask, new_valid_balls_mask, image, surface,
                   next_image, next_surface, surface_i, i, stdout, exit_status,
                   verbose, extrema>>

\* columns 0 : self.nballs of a history array
Trimmed(h) ==
    [f \in 0 .. nt - 1 |->
        [s \in 0 .. Min2(nballs, nballs_max) - 1 |-> h[f][s]]]

\* after the loop: trim the histories to the balls used
TrimHistory ==
    /\ pc = "loop"
    /\ n >= nt
    /\ stdout' = IF verbose THEN Append(stdout, [total |-> nballs]) ELSE stdout
    /\ ballpos' = Trimmed(ballpos)
    /\ balls_age_t' = Trimmed(balls_age_t)
    /\ valid_balls_mask_t' = Trimmed(valid_balls_mask_t)
    /\ pc' = "done"
    /\ UNCHANGED <<nt, track_emergence, init_given, nballs_max, nballs, pos,
                   vel, balls_age, bad_balls_mask, new_valid_balls_mask, image,
                   surface, next_image, next_surface, surface_i, n, i,
                   exit_status, verbose, extrema>>

Next ==
    \/ LoadFrame
    \/ PopulateEmergence
    \/ IntegrateStep
    \/ SetBadBalls
    \/ RecordFrame
    \/ TrimHistory

Spec == Init /\ [][Next]_vars

\* ------------------------------------- get_local_extrema called by itself
\* arguments of a call: thresholds (a number or a pair), windows, polarity
Thresholds == {<<mag_thresh>>, <<SpotValue + 5>>, <<noise_level, SpotValue + 5>>,
               <<SpotValue + 5, noise_level>>, <<-SpotValue - 5, mag_thresh>>}

Polarities == {-1, 0, 1}

XLims == {<<>>, <<0, 2>>, <<1, 3>>, <<2, 2>>}

YLims == {<<>>, <<1, 5>>, <<3, ny>>}

MinDistances == {1, ballspacing}

\* a tracker built on the frame, and the arguments of the call
InitExtrema ==
    /\ nt = 0
    /\ track_emergence = FALSE
    /\ verbose = FALSE
    /\ \E im \in Images :
          Construct(im, FALSE,
                    StoredSeq(get_local_extrema(im, polarity, ballspacing,
                                                mag_thresh)))
    /\ next_image = image
    /\ next_surface = surface
    /\ surface_i = [p \in Pixels |-> surface[p] * intsteps]
    /\ n = 0
    /\ i = 0
    /\ pc = "call"
    /\ stdout = <<>>
    /\ exit_status = -1
    /\ \E pol \in Polarities, md \in MinDistances, th \in Thresholds,
          lm \in BOOLEAN, xl \in XLims, yl \in YLims :
          extrema = [called |-> FALSE, polarity |-> pol, min_distance |-> md,
                     threshold |-> th, local_min |-> lm, xlims |-> xl,
                     ylims |-> yl]

\* xstart, ystart = get_local_extrema(image, ...)
GetLocalExtrema ==
    /\ pc = "call"
    /\ ~extrema.called
    /\ extrema' = [called |-> TRUE, polarity |-> extrema.polarity,
                   min_distance |-> extrema.min_distance,
                   threshold |-> extrema.threshold,
                   local_min |-> extrema.local_min,
                   xlims |-> extrema.xlims, ylims |-> extrema.ylims,
                   start |-> get_local_extrema_lims(
                                 image, extrema.polarity, extrema.min_distance,
                                 extrema.threshold, extrema.local_min,
                                 extrema.xlims, extrema.ylims)]
    /\ pc' = "returned"
    /\ UNCHANGED <<nt, track_emergence, init_given, nballs_max, nballs, pos,
                   vel, balls_age, bad_balls_mask, new_valid_balls_mask,
                   ballpos, balls_age_t, valid_balls_mask_t, image, surface,
                   next_image, next_surface, surface_i, n, i, stdout,
                   exit_status, verbose>>

NextExtrema == GetLocalExtrema

SpecExtrema == InitExtrema /\ [][NextExtrema]_vars

\* ================================================================ claims
\* frames whose snapshot has been stored
Recorded == 0 .. n - 1

\* the coarse cell (cell side = ballspacing) a stored position lies in
TrueCell(q) == <<q[1] \div (ballspacing * Scale), q[2] \div (ballspacing * Scale)>>

\* the message set_bad_balls printed last
LastMessage == stdout[Len(stdout)]

\* balls on the frame whose pixel passes the checks, written from the frame
PolarityOk == {s \in Slots :
                  /\ ~get_off_edges_mask(pos[s][1], pos[s][2])
                  /\ ~(image[PixelOf(s)] * polarity < 0)}

NoiseOk == {s \in PolarityOk : Abs(image[PixelOf(s)]) > noise_level}

SinkingOk == {s \in NoiseOk :
                 AsInt32(pos[s][3]) * Scale > surface[PixelOf(s)] - 4 * rs * Scale}

\* C1: after set_bad_balls has run for a frame, and in every recorded
\* snapshot, no coarse cell of side ballspacing holds more than one valid ball.
C1_DecimationInvariant ==
    /\ pc = "record" =>
          \A s, t \in Slots :
              (s # t /\ new_valid_balls_mask[s] /\ new_valid_balls_mask[t])
                  => TrueCell(pos[s]) # TrueCell(pos[t])
    /\ \A f \in Recorded : \A s, t \in DOMAIN ballpos[f] :
          (s # t /\ valid_balls_mask_t[f][s] /\ valid_balls_mask_t[f][t])
              => TrueCell(ballpos[f][s]) # TrueCell(ballpos[f][t])

\* set_bad_balls has just decimated a cell that held two balls which passed
\* the checks, in a frame that began with an emergence append
C1_Witness ==
    /\ pc = "record"
    /\ track_emergence /\ n > 0
    /\ \E s, t \in SinkingOk :
          /\ s # t
          /\ TrueCell(pos[s]) = TrueCell(pos[t])
          /\ balls_age[s] # balls_age[t]

C3_AgeMonotonicity ==
    \A f \in Recorded \ {0} : \A s \in DOMAIN balls_age_t[f] :
        balls_age_t[f][s] =
            balls_age_t[f - 1][s] + (IF valid_balls_mask_t[f][s] THEN 1 ELSE 0)

\* two snapshots exist, with a ball valid in both and a ball lost in the second
C3_Witness ==
    /\ n >= 2
    /\ \E s \in DOMAIN balls_age_t[1] :
          valid_balls_mask_t[0][s] /\ valid_balls_mask_t[1][s]
    /\ \E t \in DOMAIN balls_age_t[1] :
          valid_balls_mask_t[0][t] /\ ~valid_balls_mask_t[1][t]

\* C4: in every recorded snapshot a slot holds the sentinel (-1, -1, -1)
\* exactly when its validity-mask entry is false.
C4_SentinelConsistency ==
    \A f \in Recorded : \A s \in DOMAIN ballpos[f] :
        (ballpos[f][s] = Sentinel) <=> ~valid_balls_mask_t[f][s]

\* a snapshot holds a valid ball and a seeded ball that was invalidated
C4_Witness ==
    /\ n >= 1
    /\ \E s, t \in DOMAIN ballpos[0] :
          /\ valid_balls_mask_t[0][s]
          /\ ~valid_balls_mask_t[0][t]
          /\ t < nballs

\* C5: the number of balls in use never exceeds the capacity; an emergence
\* append that does not fit is rejected and leaves nballs at most nballs_max.
C5_CapacityContainment == nballs <= nballs_max

\* C6: when the polarity, the noise or the sinking check leaves no ball valid
\* the run stops in that frame with the message of that check and exit status
\* 1; the snapshot of the frame is not stored and no later step is taken.
C6_AbortState ==
    /\ pc = "record" => SinkingOk # {}
    /\ pc = "aborted" =>
          /\ exit_status = 1
          /\ n < nt
          /\ Len(stdout) > 0
          /\ "message" \in DOMAIN LastMessage
          /\ LastMessage.message = PolarityMsg <=> PolarityOk = {}
          /\ LastMessage.message = NoiseMsg <=> (PolarityOk # {} /\ NoiseOk = {})
          /\ LastMessage.message = SinkingMsg <=> (NoiseOk # {} /\ SinkingOk = {})
          /\ ballpos[n] = [s \in Slots |-> Zero3]
          /\ valid_balls_mask_t[n] = [s \in Slots |-> TRUE]

C6_AbortStep ==
    /\ pc # "aborted"
    /\ (pc = "validate" /\ SinkingOk = {}) => pc' = "aborted"

C6_TotalInvalidation == [](C6_AbortState) /\ [][C6_AbortStep]_vars

\* the noise check emptied a set that the polarity check had left non-empty,
\* in a frame that follows a recorded one
C6_Witness ==
    /\ pc = "aborted"
    /\ n >= 1
    /\ PolarityOk # {}
    /\ NoiseOk = {}
    /\ LastMessage.message = NoiseMsg

\* C7: what a total-invalidation abort reports names the index of the frame
\* in which it happened.
C7_AbortNamesFrame ==
    pc = "aborted" =>
        \E k \in 1 .. Len(stdout) :
            "frame" \in DOMAIN stdout[k] /\ stdout[k].frame = n

\* C8: a run that starts without any seed is not aborted.
C8_ZeroSeedsProceed == nballs = 0 => pc # "aborted"

\* C9: a run is aborted only in a frame in which a ball reached the polarity
\* check: the balls that entered the frame are not all off the edges.
C9_OffEdgeNoAbort ==
    (pc = "aborted" /\ valid_now # {}) => valid_balls_idx # {}

\* the footprint of a ball at the stored position q lies on the frame
InBounds(q) ==
    /\ rs * Scale <= q[1] /\ q[1] <= (nx - 1 - rs) * Scale
    /\ rs * Scale <= q[2] /\ q[2] <= (ny - 1 - rs) * Scale

\* C10: every valid ball of a recorded snapshot lies inside the frame shrunk
\* by the radius; a ball that integration left off the frame is invalid in
\* the snapshot of that frame, with the sentinel as position.
C10_ValidInBounds ==
    \A f \in Recorded : \A s \in DOMAIN ballpos[f] :
        valid_balls_mask_t[f][s] => InBounds(ballpos[f][s])

C10_OffFrameFlagged ==
    pc = "record" =>
        \A s \in Slots :
            ~InBounds(pos[s]) =>
                /\ ~valid_balls_mask_t'[n][s]
                /\ ballpos'[n][s] = Sentinel

C10_FrameBounds == [](C10_ValidInBounds) /\ [][C10_OffFrameFlagged]_vars

\* a snapshot in which one ball is valid and another, valid in the frame
\* before, was carried off the frame
C10_Witness ==
    /\ n >= 2
    /\ \E s, t \in DOMAIN ballpos[1] :
          /\ valid_balls_mask_t[1][s]
          /\ valid_balls_mask_t[0][t]
          /\ ~valid_balls_mask_t[1][t]
          /\ ballpos[1][t] = Sentinel
          /\ vel[t].nan

\* detector candidates of the frame being processed, stored coordinates
Candidates ==
    {<<c[1] * Scale, c[2] * Scale>> :
        c \in Range(get_local_extrema(image, polarity, ballspacing, mag_thresh))}

\* the candidate c is farther than ballspacing + 1 pixels from every ball that
\* is valid when the Emergence Populator runs
FarFromValid(c) ==
    \A s \in Slots :
        new_valid_balls_mask[s] =>
            (c[1] - pos[s][1]) * (c[1] - pos[s][1])
              + (c[2] - pos[s][2]) * (c[2] - pos[s][2])
                > (ballspacing + 1) * (ballspacing + 1) * Scale * Scale

\* C11: the number of balls grows only in the Emergence Populator, which runs
\* only with emergence enabled and n > 0; there a candidate of the frame ends
\* in a new slot as a valid ball if and only if it is farther than
\* ballspacing + 1 from every valid ball and its footprint is on the frame.
C11_AppendOnlyInEmergence ==
    nballs' # nballs => (pc = "emerge" /\ track_emergence /\ n > 0)

C11_AppendedIff ==
    pc = "emerge" =>
        \A c \in Candidates :
            (FarFromValid(c) /\ InBounds(c))
              <=> \E s \in Slots :
                     /\ nballs <= s /\ s < nballs'
                     /\ pos'[s][1] = c[1] /\ pos'[s][2] = c[2]
                     /\ new_valid_balls_mask'[s]

C11_EmergenceAppend ==
    [][C11_AppendOnlyInEmergence /\ C11_AppendedIff]_vars

\* C12: with emergence enabled, a ball that the Emergence Populator appended
\* in frame f > 0 (valid in the snapshot of f, its slot not valid in the
\* snapshot of f - 1) has age 1 in the snapshot of frame f.
C12_AppendedAgeOne ==
    track_emergence =>
        \A f \in Recorded : \A s \in DOMAIN valid_balls_mask_t[f] :
            (f > 0 /\ valid_balls_mask_t[f][s] /\ ~valid_balls_mask_t[f - 1][s])
                => balls_age_t[f][s] = 1

\* C13: a ball seeded at initialization (valid in the snapshot of frame 0)
\* that is valid in every snapshot of a completed run has age nt in the
\* snapshot of the last frame.
C13_AgeEqualsFrameCount ==
    (pc = "done" /\ nt > 0) =>
        \A s \in DOMAIN valid_balls_mask_t[nt - 1] :
            (\A f \in 0 .. nt - 1 : valid_balls_mask_t[f][s])
                => balls_age_t[nt - 1][s] = nt

\* C14: in every frame the integration sub-steps come first, the Emergence
\* Populator runs only right after the validity/decimation engine, and the
\* snapshot is stored right after the Emergence Populator.
C14_IntegrationFirst == (pc = "loop" /\ n < nt) => pc' = "integrate"

C14_EmergenceAfterValidity == pc' = "emerge" => pc = "validate"

C14_SnapshotAfterEmergence == pc = "emerge" => pc' = "record"

C14_StepOrder ==
    [][/\ C14_IntegrationFirst
       /\ C14_EmergenceAfterValidity
       /\ C14_SnapshotAfterEmergence]_vars

\* C16: a request for zero frames is rejected; no run with nt = 0 reaches the
\* end of track_all_frames.
C16_ZeroFramesRejected == nt = 0 => pc # "done"

\* the seeds the constructor was given or detected, as <<x, y>> in stored
\* coordinates, written from the first frame
DetectedSeeds ==
    LET ext == get_local_extrema(image, polarity, ballspacing, mag_thresh)
    IN [k \in 1 .. Len(ext) |-> <<ext[k][1] * Scale, ext[k][2] * Scale>>]

SeedsAre(start) ==
    /\ nballs = Len(start)
    /\ \A s \in Slots :
          s < nballs =>
              /\ pos[s][1] = start[s + 1][1]
              /\ pos[s][2] = start[s + 1][2]
              /\ pos[s][3] = put_balls_on_surface(surface, AsInt32(pos[s][1]),
                                                  AsInt32(pos[s][2]))

\* C17: right after construction the slots below nballs hold the seeds in
\* order, with velocity 0, age 1 and validity true; every other slot is
\* invalid and holds the sentinel; nballs is the number of seeds.
C17_SeededState ==
    (pc = "loop" /\ n = 0) =>
        /\ IF init_given THEN \E init_pos \in InitPosChoices : SeedsAre(init_pos)
           ELSE SeedsAre(DetectedSeeds)
        /\ \A s \in Slots :
              IF s < nballs
              THEN /\ vel[s] = VelZero
                   /\ balls_age[s] = 1
                   /\ new_valid_balls_mask[s]
              ELSE /\ pos[s] = Sentinel
                   /\ ~new_valid_balls_mask[s]

\* a constructed tracker with two detected seeds and unused slots behind them
C17_Witness ==
    /\ pc = "loop" /\ n = 0
    /\ ~init_given
    /\ nballs = 2
    /\ nballs < nballs_max
    /\ pos[0] # pos[1]

\* C18: an emergence append of k = nballs' - nballs balls leaves position,
\* velocity, age and validity of every slot below the old nballs unchanged,
\* gives the k slots from the old nballs on velocity 0 and validity true, and
\* writes no other slot.
C18_OldSlotsKept ==
    \A s \in Slots :
        (s < nballs \/ s >= nballs') =>
            /\ pos'[s] = pos[s]
            /\ vel'[s] = vel[s]
            /\ balls_age'[s] = balls_age[s]
            /\ new_valid_balls_mask'[s] = new_valid_balls_mask[s]

C18_NewSlotsWritten ==
    \A s \in nballs .. nballs' - 1 :
        /\ s \in Slots
        /\ vel'[s] = VelZero
        /\ new_valid_balls_mask'[s]

C18_AppendFrame ==
    [][pc = "emerge" =>
          /\ nballs' >= nballs
          /\ C18_OldSlotsKept
          /\ C18_NewSlotsWritten]_vars

\* C19: a completed run has stored one snapshot per frame 0 .. nt - 1, a step
\* that processes frame n leaves the snapshots of the frames before n as they
\* are and stores only the snapshot of frame n, and after the trim the three
\* histories have the same slots, nballs of them.
C19_OnePerFrame ==
    pc = "done" =>
        /\ n = nt
        /\ DOMAIN ballpos = 0 .. nt - 1
        /\ DOMAIN balls_age_t = 0 .. nt - 1
        /\ DOMAIN valid_balls_mask_t = 0 .. nt - 1

C19_Trimmed ==
    pc = "done" =>
        \A f \in 0 .. nt - 1 :
            /\ DOMAIN ballpos[f] = 0 .. nballs - 1
            /\ DOMAIN balls_age_t[f] = 0 .. nballs - 1
            /\ DOMAIN valid_balls_mask_t[f] = 0 .. nballs - 1

C19_EarlierKept ==
    pc # "loop" =>
        /\ n' \in {n, n + 1}
        /\ \A f \in 0 .. nt - 1 :
              (f # n \/ pc # "record") =>
                  /\ ballpos'[f] = ballpos[f]
                  /\ balls_age_t'[f] = balls_age_t[f]
                  /\ valid_balls_mask_t'[f] = valid_balls_mask_t[f]
        /\ pc = "record" =>
              /\ n' = n + 1
              /\ ballpos'[n] = pos'
              /\ balls_age_t'[n] = balls_age'
              /\ valid_balls_mask_t'[n] = new_valid_balls_mask'

C19_Snapshots == C19_OnePerFrame /\ C19_Trimmed

C19_History == [](C19_Snapshots) /\ [][C19_EarlierKept]_vars

\* the pixel p of the frame passes the threshold test of the call
PassesThreshold(p) ==
    LET v == image[p]
        th == extrema.threshold
    IN IF Len(th) = 1
       THEN IF extrema.polarity >= 0 THEN v >= th[1] ELSE v <= -th[1]
       ELSE \E a, b \in {th[1], th[2]} : a <= b /\ a < v /\ v < b

\* the pixel p lies inside the window of the call
InWindow(p) ==
    /\ extrema.xlims = <<>>
         \/ (extrema.xlims[1] <= p[1] /\ p[1] < extrema.xlims[2])
    /\ extrema.ylims = <<>>
         \/ (extrema.ylims[1] <= p[2] /\ p[2] < extrema.ylims[2])

\* C20: every coordinate get_local_extrema returns is a pixel of the frame
\* that passes the threshold test and lies inside the xlims/ylims window; when
\* no pixel passes, nothing is returned.
C20_ExtremaPassThreshold ==
    extrema.called =>
        /\ \A k \in 1 .. Len(extrema.start) :
              /\ extrema.start[k] \in Pixels
              /\ PassesThreshold(extrema.start[k])
              /\ InWindow(extrema.start[k])
        /\ (\A p \in Pixels : ~PassesThreshold(p)) => extrema.start = <<>>

\* a call with a pair of bounds and a window that returned a coordinate while
\* a pixel that passes the threshold lies outside the window
C20_Witness ==
    /\ extrema.called
    /\ Len(extrema.threshold) = 2
    /\ extrema.xlims # <<>>
    /\ extrema.start # <<>>
    /\ \E p \in Pixels : PassesThreshold(p) /\ ~InWindow(p)

\* the balls that passed the four checks and share the coarse cell (as
\* coarse_grid_pos numbers it) of the ball in slot s
CellMates(s) == {t \in SinkingOk : coarse_pos(t) = coarse_pos(s)}

\* the oldest balls of the cell of s
OldestOf(s) ==
    {t \in CellMates(s) : \A u \in CellMates(s) : balls_age[u] <= balls_age[t]}

\* C21: when several balls of one coarse cell share the greatest age,
\* decimation keeps the one with the lowest slot index among them.
C21_TieLowestSlot ==
    pc = "record" =>
        \A s \in SinkingOk :
            (Cardinality(OldestOf(s)) >= 2 /\ new_valid_balls_mask[s])
                => \A t \in OldestOf(s) : s <= t

\* C22: a ball that passed the off-edge, polarity, noise and sinking checks is
\* invalidated only when decimation keeps another ball that passed them in
\* its coarse cell; balls that failed a check do not count, and none of them
\* is kept.
C22_FailedBallsNotDecimating ==
    pc = "record" =>
        /\ \A s \in Slots \ SinkingOk : ~new_valid_balls_mask[s]
        /\ \A s \in SinkingOk :
              ~new_valid_balls_mask[s] =>
                  \E t \in CellMates(s) : t # s /\ new_valid_balls_mask[t]

\* set_bad_balls kept a ball while an older ball that failed a check lies in
\* the same coarse cell
C22_Witness ==
    /\ pc = "record"
    /\ \E s \in SinkingOk : \E t \in Slots \ SinkingOk :
          /\ new_valid_balls_mask[s]
          /\ t < nballs
          /\ pos[t] # Sentinel
          /\ coarse_pos(t) = coarse_pos(s)
          /\ balls_age[t] > balls_age[s]

\* a stored coordinate rounded to the nearest pixel (one half rounds up, as
\* it does for 1.5 under round-half-to-even)
RoundPx(v) == (2 * v + Scale) \div (2 * Scale)

\* the frame value at the rounded position of the ball in slot s has the sign
\* opposite to the tracked polarity
RoundedOpposite(s) ==
    image[<<RoundPx(pos[s][1]), RoundPx(pos[s][2])>>] * polarity < 0

\* C23: when set_bad_balls runs, a ball on the frame is removed by the
\* polarity check exactly when the frame value at its rounded (x, y) has the
\* sign opposite to the polarity.
C23_PolarityAtRoundedPixel ==
    pc = "validate" =>
        \A s \in valid_balls_idx :
            (s \notin after_polarity) <=> RoundedOpposite(s)

\* C24: when set_bad_balls runs, a ball that passed the earlier checks is
\* removed by the sinking check exactly when its z, at full precision, is
\* lower than the surface at its pixel minus the maximum depth 4 * rs.
C24_SinkingFullPrecision ==
    pc = "validate" =>
        \A s \in after_noise :
            (s \notin after_sinking)
                <=> pos[s][3] < surface[PixelOf(s)] - 4 * rs * Scale

\* C25: a frame has exactly intsteps sub-steps, numbered from 0; sub-step i
\* uses the surface current * (intsteps - i) + next * i (over intsteps), the
\* current surface at sub-step 0 and at every sub-step of the last frame,
\* where next equals current; no frame beyond nt - 1 is processed.
C25_SubStep ==
    /\ (pc # "integrate" /\ pc' = "integrate") => i' = 0
    /\ pc = "integrate" =>
          /\ i < intsteps
          /\ i' = i + 1
          /\ pc' = IF i' = intsteps THEN "validate" ELSE "integrate"
          /\ \A p \in Pixels :
                /\ surface_i'[p]
                     = surface[p] * (intsteps - i) + next_surface[p] * i
                /\ (i = 0 \/ n = nt - 1) => surface_i'[p] = surface[p] * intsteps

C25_FramesLoaded ==
    pc \in {"emerge", "integrate", "validate", "record"} =>
        /\ n < nt
        /\ pc \in {"validate", "record"} => i = intsteps
        /\ n = nt - 1 => (next_image = image /\ next_surface = surface)

C25_Interpolation == [](C25_FramesLoaded) /\ [][C25_SubStep]_vars

\* the last sub-step of a frame that is not the last one used a surface that
\* differs from the current one
C25_Witness ==
    /\ pc = "validate"
    /\ n < nt - 1
    /\ i = intsteps
    /\ \E p \in Pixels : surface_i[p] # surface[p] * intsteps

\* C26: decimation invalidates a ball that passed the four checks only when
\* another ball that passed them lies in the same cell
\* (floor(x / ballspacing), floor(y / ballspacing)); a ball alone in its cell
\* stays valid.
C26_AloneInCellStays ==
    pc = "record" =>
        \A s \in SinkingOk :
            ~new_valid_balls_mask[s] =>
                \E t \in SinkingOk :
                    t # s /\ TrueCell(pos[t]) = TrueCell(pos[s])

\* C27: a slot in use that is invalid never becomes valid again; the
\* Emergence Populator leaves the slots below nballs as they are; a slot that
\* was valid in a snapshot and invalid in a later one is invalid, with the
\* sentinel as position, in every snapshot after that.
C27_NoRevalidation ==
    \A s \in Slots :
        (s < nballs /\ ~new_valid_balls_mask[s]) => ~new_valid_balls_mask'[s]

C27_EmergenceAllocatesTail ==
    pc = "emerge" =>
        \A s \in Slots :
            s < nballs =>
                /\ pos'[s] = pos[s]
                /\ new_valid_balls_mask'[s] = new_valid_balls_mask[s]

C27_SnapshotsStayInvalid ==
    \A e, f, g \in Recorded : \A s \in DOMAIN valid_balls_mask_t[g] :
        (e < f /\ f <= g /\ valid_balls_mask_t[e][s] /\ ~valid_balls_mask_t[f][s])
            => /\ ~valid_balls_mask_t[g][s]
               /\ ballpos[g][s] = Sentinel

C27_ValidityNeverRegained ==
    /\ [](C27_SnapshotsStayInvalid)
    /\ [][C27_NoRevalidation /\ C27_EmergenceAllocatesTail]_vars

\* the first seed was invalidated in frame 0 and is still invalid, with the
\* sentinel as position, in the snapshot of frame 1, in which a ball appended
\* by the Emergence Populator is valid
C27_Witness ==
    /\ n = 2
    /\ ~valid_balls_mask_t[0][0]
    /\ ~valid_balls_mask_t[1][0]
    /\ ballpos[1][0] = Sentinel
    /\ \E t \in DOMAIN valid_balls_mask_t[1] :
          valid_balls_mask_t[1][t] /\ ~valid_balls_mask_t[0][t]

\* C28: every recorded snapshot has a valid ball: set_bad_balls hands a
\* non-empty set of valid balls to the snapshot, and a frame in which no ball
\* passes the checks ends the run without a snapshot.
C28_SnapshotsNotEmpty ==
    /\ \A f \in Recorded :
          \E s \in DOMAIN valid_balls_mask_t[f] : valid_balls_mask_t[f][s]
    /\ pc = "record" => \E s \in SinkingOk : new_valid_balls_mask[s]

C28_EmptyFrameAborts ==
    (pc = "validate" /\ SinkingOk = {}) =>
        /\ pc' = "aborted"
        /\ n' = n
        /\ ballpos' = ballpos
        /\ valid_balls_mask_t' = valid_balls_mask_t

C28_NoEmptySnapshot ==
    [](C28_SnapshotsNotEmpty) /\ [][C28_EmptyFrameAborts]_vars

\* a snapshot in which a single ball is valid while three slots or more are
\* in use
C28_Witness ==
    /\ pc = "loop"
    /\ n >= 1
    /\ Cardinality({s \in DOMAIN valid_balls_mask_t[n - 1] :
                       valid_balls_mask_t[n - 1][s]}) = 1
    /\ nballs >= 3
    /\ nballs <= nballs_max

====
